---- MODULE Spec2Model ----
(***************************************************************************)
(* A model of the Oracle driver of the atlas schema tool:                  *)
(*   - the type conversion layer (FormatType, ParseType, parseColumn,      *)
(*     parseCharParts, columnType), computed on character strings;         *)
(*   - the catalog inspector (InspectRealm, InspectSchema, InspectTable    *)
(*     and the per-table row decoders), as a sequential state machine      *)
(*     driven by the answers of the query executor.                        *)
(***************************************************************************)
EXTENDS Integers, Sequences, FiniteSets, TLC

(***************************************************************************)
(* Bounds of the model.                                                    *)
(***************************************************************************)
\* sizes are taken within MaxDelta of the two bucket boundaries
MaxDelta == 1
\* decimal precision and scale are taken in -1 .. MaxFacet
MaxFacet == 2

(***************************************************************************)
(* Program constants.                                                      *)
(***************************************************************************)
TypeVarchar      == "varchar2"
TypeNVarchar     == "nvarchar2"
TypeChar         == "char"
TypeNChar        == "nchar"
TypeRowID        == "rowid"
TypeRaw          == "raw"
TypeFloat        == "float"
TypeDouble       == "double"
TypeInt          == "int"
TypeNumber       == "number"
TypeDate         == "date"
TypeTimestamp    == "timestamp"
TypeTimestampTZ  == "timestamp with time zone"
TypeTimestampLTZ == "timestamp with local time zone"
TypeIntervalDS   == "interval day second"
TypeIntervalYM   == "interval year month"
TypeCLOB         == "clob"
TypeBLOB         == "blob"
TypeBFile        == "bfile"
TypeLongVarchar  == "long"
TypeLongRaw      == "long raw"
TypeJSON         == "json"

\* the bucket boundaries of FormatType
MinSized == 2
MaxSized == 4000
\* the default precisions parseColumn gives double, int and float
DoublePrecision == 53
IntPrecision    == 32
FloatPrecision  == 24

(***************************************************************************)
(* Strings: the library functions the conversion layer calls, computed     *)
(* character by character.                                                 *)
(***************************************************************************)
CharAt(s, i) == SubSeq(s, i, i)

\* strings.ToLower
ToLower(s) ==
  LET UpperChars == "ABCDEFGHIJKLMNOPQRSTUVWXYZ"
      LowerChars == "abcdefghijklmnopqrstuvwxyz"
      LowerChar(c) ==
        IF \E i \in 1..26 : CharAt(UpperChars, i) = c
        THEN CharAt(LowerChars, CHOOSE i \in 1..26 : CharAt(UpperChars, i) = c)
        ELSE c
      RECURSIVE LowerFrom(_)
      LowerFrom(i) ==
        IF i > Len(s) THEN "" ELSE LowerChar(CharAt(s, i)) \o LowerFrom(i + 1)
  IN LowerFrom(1)

\* strings.HasPrefix
HasPrefix(s, p) == Len(s) >= Len(p) /\ SubSeq(s, 1, Len(p)) = p

\* the separator predicate parseColumn hands to strings.FieldsFunc
IsSeparator(c) == c \in {"(", ")", " ", ","}

\* strings.FieldsFunc(s, IsSeparator): the maximal runs of non-separators
FieldsFunc(s) ==
  LET RECURSIVE FieldsFrom(_, _, _)
      FieldsFrom(i, run, acc) ==
        IF i > Len(s)
        THEN IF run = "" THEN acc ELSE Append(acc, run)
        ELSE LET c == CharAt(s, i) IN
             IF IsSeparator(c)
             THEN FieldsFrom(i + 1, "", IF run = "" THEN acc ELSE Append(acc, run))
             ELSE FieldsFrom(i + 1, run \o c, acc)
  IN FieldsFrom(1, "", <<>>)

\* strings.Join
Join(parts, sep) ==
  LET RECURSIVE JoinFrom(_)
      JoinFrom(i) ==
        IF i > Len(parts) THEN ""
        ELSE IF i = Len(parts) THEN parts[i]
        ELSE parts[i] \o sep \o JoinFrom(i + 1)
  IN JoinFrom(1)

IsDigit(c) == \E i \in 0..9 : ToString(i) = c

\* strconv.ParseInt(s, 10, 64): an optional sign and at least one digit,
\* nothing else (the tokens of the model stay far below 64 bits)
ParseInt(s) ==
  LET signed == Len(s) > 0 /\ CharAt(s, 1) \in {"+", "-"}
      body   == IF signed THEN SubSeq(s, 2, Len(s)) ELSE s
      ok     == Len(body) > 0 /\ \A i \in 1..Len(body) : IsDigit(CharAt(body, i))
      DigitVal(c) == CHOOSE i \in 0..9 : ToString(i) = c
      RECURSIVE DigitsValue(_, _)
      DigitsValue(i, acc) ==
        IF i > Len(body) THEN acc ELSE DigitsValue(i + 1, 10 * acc + DigitVal(CharAt(body, i)))
      mag    == IF ok THEN DigitsValue(1, 0) ELSE 0
  IN [ok |-> ok,
      v  |-> IF signed /\ CharAt(s, 1) = "-" THEN 0 - mag ELSE mag]

\* fmt.Sprintf("%d", n)
FormatInt(n) == ToString(n)

(***************************************************************************)
(* schema.Type values: one record shape for every variant.                 *)
(***************************************************************************)
Type(kind, T, size, precision, scale) ==
  [kind |-> kind, T |-> T, Size |-> size, Precision |-> precision, Scale |-> scale]

NoType == Type("nil", "", 0, 0, 0)

BinaryType(T, size)          == Type("Binary", T, size, 0, 0)
IntegerType(T)               == Type("Integer", T, 0, 0, 0)
StringType(T, size)          == Type("String", T, size, 0, 0)
TimeType(T)                  == Type("Time", T, 0, 0, 0)
FloatType(T, precision)      == Type("Float", T, 0, precision, 0)
DecimalType(T, precision, scale) == Type("Decimal", T, 0, precision, scale)
JSONType(T)                  == Type("JSON", T, 0, 0, 0)
UnsupportedType(T)           == Type("Unsupported", T, 0, 0, 0)
UserDefinedType(T)           == Type("UserDefined", T, 0, 0, 0)
\* a variant FormatType has no case for
BoolType(T)                  == Type("Bool", T, 0, 0, 0)

(***************************************************************************)
(* FormatType                                                              *)
(***************************************************************************)
Formatted(f) == [f |-> f, err |-> ""]
FormatError(msg) == [f |-> "", err |-> msg]

ErrScale     == "oracle: decimal type must have scale >= 0"
ErrPrecision == "oracle: decimal type must have precision between 1 and 1000"
ErrUnsupported == "oracle: unsupported type"
ErrInvalid   == "oracle: invalid schema type"

FormatBinary(t) ==
  IF t.Size < MinSized THEN Formatted("raw(1)")
  ELSE IF t.Size > MaxSized THEN Formatted("blob")
  ELSE Formatted(TypeRaw \o "(" \o FormatInt(t.Size) \o ")")

\* FormatString with the upper boundary off by one (4000 already a clob)
FormatString_OffByOne(t) ==
  IF t.Size < MinSized THEN Formatted("char(1)")
  ELSE IF t.Size >= MaxSized THEN Formatted("clob")
  ELSE Formatted(TypeVarchar \o "(" \o FormatInt(t.Size) \o ")")

FormatString(t) ==
  IF t.Size < MinSized THEN Formatted("char(1)")
  ELSE IF t.Size > MaxSized THEN Formatted("clob")
  ELSE Formatted(TypeVarchar \o "(" \o FormatInt(t.Size) \o ")")

\* the inner switches on strings.ToLower(t.T) have no default case: a name
\* that matches none of the cases is returned lowered
FormatTime(t) == Formatted(ToLower(t.T))

FormatFloat(t) == Formatted(ToLower(t.T))

\* FormatDecimal without the check of a positive scale against precision 0
FormatDecimal_NoPrecisionCheck(t) ==
  LET p == t.Precision
      s == t.Scale
  IN CASE p = 0 /\ s = 0 -> Formatted(TypeNumber)
       [] ~(p = 0 /\ s = 0) /\ s < 0 -> FormatError(ErrScale)
       [] ~(p = 0 /\ s = 0) /\ ~(s < 0) /\ s = 0 ->
            Formatted(TypeNumber \o "(" \o FormatInt(p) \o ")")
       [] OTHER ->
            Formatted(TypeNumber \o "(" \o FormatInt(p) \o "," \o FormatInt(s) \o ")")

FormatDecimal(t) ==
  LET p == t.Precision
      s == t.Scale
  IN CASE p = 0 /\ s = 0 -> Formatted(TypeNumber)
       [] ~(p = 0 /\ s = 0) /\ s < 0 -> FormatError(ErrScale)
       [] ~(p = 0 /\ s = 0) /\ ~(s < 0) /\ p = 0 /\ s > 0 -> FormatError(ErrPrecision)
       [] ~(p = 0 /\ s = 0) /\ ~(s < 0) /\ ~(p = 0 /\ s > 0) /\ s = 0 ->
            Formatted(TypeNumber \o "(" \o FormatInt(p) \o ")")
       [] OTHER ->
            Formatted(TypeNumber \o "(" \o FormatInt(p) \o "," \o FormatInt(s) \o ")")

FormatType(t) ==
  CASE t.kind = "Binary"  -> FormatBinary(t)
    [] t.kind = "Integer" -> Formatted(TypeInt)
    [] t.kind = "String"  -> FormatString(t)
    [] t.kind = "Time"    -> FormatTime(t)
    [] t.kind = "Float"   -> FormatFloat(t)
    [] t.kind = "Decimal" -> FormatDecimal(t)
    [] t.kind = "JSON"    -> Formatted(ToLower(t.T))
    [] t.kind = "Unsupported" -> FormatError(ErrUnsupported)
    [] OTHER -> FormatError(ErrInvalid)

(***************************************************************************)
(* columnType, parseColumn, parseCharParts, ParseType                      *)
(***************************************************************************)
columnDesc(typ, size, precision, scale, parts) ==
  [typ |-> typ, size |-> size, precision |-> precision, scale |-> scale,
   parts |-> parts]

columnType(c) ==
  LET t == c.typ
      l == ToLower(t)
  IN CASE l = TypeInt -> IntegerType(t)
       [] l = TypeRaw -> BinaryType(t, 0)
       [] l \in {TypeChar, TypeNChar, TypeVarchar, TypeNVarchar} -> StringType(t, c.size)
       [] l \in {TypeDate, TypeTimestamp, TypeTimestampTZ, TypeTimestampLTZ} -> TimeType(t)
       [] l \in {TypeIntervalDS, TypeIntervalYM} -> UnsupportedType(t)
       [] l \in {TypeDouble, TypeFloat} -> FloatType(t, c.precision)
       [] l = TypeJSON -> JSONType(t)
       [] l = TypeNumber -> DecimalType(t, c.precision, c.scale)
       [] OTHER -> UnsupportedType(t)

\* what a call returns: a value, an error, or a runtime panic
Returned(c)  == [outcome |-> "ok", c |-> c, msg |-> ""]
Failed(msg)  == [outcome |-> "error", c |-> columnDesc("", 0, 0, 0, <<>>), msg |-> msg]
Panicked(msg) == [outcome |-> "panic", c |-> columnDesc("", 0, 0, 0, <<>>), msg |-> msg]

ErrParseSize      == "oracle: parse size"
ErrParsePrecision == "oracle: parse precision"
ErrParseScale     == "oracle: parse scale"
PanicIndex        == "runtime error: index out of range"
PanicSlice        == "runtime error: slice bounds out of range"

\* the keyword parseCharParts recognises: the type it sets and the number of
\* leading parts it drops
CharPrefix(j) ==
  CASE HasPrefix(j, TypeVarchar)  -> [typ |-> TypeVarchar, drop |-> 1, set |-> TRUE]
    [] ~HasPrefix(j, TypeVarchar) /\ HasPrefix(j, TypeNVarchar) ->
         [typ |-> TypeVarchar, drop |-> 1, set |-> TRUE]
    [] ~HasPrefix(j, TypeVarchar) /\ ~HasPrefix(j, TypeNVarchar) /\ HasPrefix(j, TypeChar) ->
         [typ |-> TypeChar, drop |-> 2, set |-> TRUE]
    [] ~HasPrefix(j, TypeVarchar) /\ ~HasPrefix(j, TypeNVarchar) /\ ~HasPrefix(j, TypeChar)
         /\ HasPrefix(j, TypeNChar) ->
         [typ |-> TypeNChar, drop |-> 2, set |-> TRUE]
    [] OTHER -> [typ |-> "", drop |-> 1, set |-> FALSE]

parseCharParts(parts, c) ==
  LET j    == Join(parts, " ")
      pre  == CharPrefix(j)
      c1   == IF pre.set THEN [c EXCEPT !.typ = pre.typ] ELSE c
  IN IF pre.drop > Len(parts)
     THEN Panicked(PanicSlice)                 \* parts[k:] with k > len(parts)
     ELSE LET rest == SubSeq(parts, pre.drop + 1, Len(parts)) IN
          IF Len(rest) = 0 THEN Returned(c1)
          ELSE LET n == ParseInt(rest[1]) IN
               IF ~n.ok
               THEN IF Len(rest) < 2
                    THEN Panicked(PanicIndex)  \* parts[1] of the error message
                    ELSE Failed(ErrParseSize)
               ELSE Returned([c1 EXCEPT !.size = n.v])

parseNumber(parts, c) ==
  LET p == IF Len(parts) > 1 THEN ParseInt(parts[2]) ELSE [ok |-> TRUE, v |-> 0]
      s == IF Len(parts) > 2 THEN ParseInt(parts[3]) ELSE [ok |-> TRUE, v |-> 0]
  IN IF ~p.ok THEN Failed(ErrParsePrecision)
     ELSE IF ~s.ok THEN Failed(ErrParseScale)
     ELSE Returned([c EXCEPT !.precision = p.v, !.scale = s.v])

parseColumn(s) ==
  LET parts == FieldsFunc(s) IN
  IF Len(parts) = 0
  THEN Panicked(PanicIndex)                    \* parts[0] of an empty slice
  ELSE LET c == columnDesc(parts[1], 0, 0, 0, parts) IN
       CASE parts[1] \in {TypeVarchar, TypeNVarchar, TypeChar, TypeNChar} ->
              parseCharParts(parts, c)
         [] parts[1] = TypeNumber -> parseNumber(parts, c)
         [] parts[1] = TypeDouble -> Returned([c EXCEPT !.precision = DoublePrecision])
         [] parts[1] = TypeInt    -> Returned([c EXCEPT !.precision = IntPrecision])
         [] parts[1] = TypeFloat  -> Returned([c EXCEPT !.precision = FloatPrecision])
         [] OTHER -> Returned([c EXCEPT !.typ = s])

Parsed(t) == [outcome |-> "ok", t |-> t, msg |-> ""]

ParseType(typ) ==
  LET d == parseColumn(typ) IN
  IF d.outcome # "ok"
  THEN [outcome |-> d.outcome, t |-> NoType, msg |-> d.msg]
  ELSE LET t == columnType(d.c) IN
       IF t.kind = "Unsupported" THEN Parsed(UserDefinedType(t.T)) ELSE Parsed(t)

(***************************************************************************)
(* Open                                                                    *)
(***************************************************************************)
\* values the parameter query delivers, at most
MaxParams == 4

\* semver.Compare("v" + version, "v10.0.0") for version = aa.bb.cc: a version
\* with a group that is not a number without leading zero is invalid and
\* below every valid one; a valid one has a major of two digits, 10 at least,
\* and a minor of two digits
Compare(version) ==
  LET group(k) == SubSeq(version, 3 * k - 2, 3 * k - 1)
      valid(g) == IsDigit(CharAt(g, 1)) /\ IsDigit(CharAt(g, 2)) /\ CharAt(g, 1) # "0"
  IN IF \A k \in 1..3 : valid(group(k)) THEN 1 ELSE 0 - 1

\* four values and more are let through
ParamsOK_AtLeast(params) == Len(params) >= 3

\* Open: len(params) != 3 is an error
ParamsOK(params) == Len(params) = 3

\* Open, on the answer to the parameter query
Open(ans) ==
  LET refused(msg) == [driver |-> FALSE, err |-> msg, version |-> ""]
      raw == ans.params[3]
      version == SubSeq(raw, 1, 2) \o "." \o SubSeq(raw, 3, 4) \o "." \o SubSeq(raw, 5, 6)
  IN CASE ans.query = "fail" -> refused("oracle: scanning system variables")
       [] ans.query = "scanerr" -> refused("oracle: failed scanning rows")
       [] ans.query = "rows" /\ ~ParamsOK(ans.params) ->
            refused("oracle: unexpected number of rows")
       [] ans.query = "rows" /\ ParamsOK(ans.params) /\ Len(raw) # 6 ->
            refused("oracle: malformed version")
       [] OTHER ->
            IF Compare(version) # 0 - 1
            THEN refused("oracle: unsupported oracle version")
            ELSE [driver |-> TRUE, err |-> "", version |-> version]

VARIABLES
  openIn,    \* the answer to the parameter query of Open: [query, params]
  openRes    \* what Open returned: [driver, err, version]

\* Open has not been called
OpenIdle ==
  /\ openIn = [query |-> "none", params |-> <<>>]
  /\ openRes = [driver |-> FALSE, err |-> "none", version |-> ""]

\* the answer Open is to get: the query fails, the rows cannot be scanned,
\* or any settings
OpenInit ==
  LET ParamValues == {"C", "en_US.UTF-8", "120100", "090600", "121011", "1201"}
  IN
  /\ openRes = [driver |-> FALSE, err |-> "none", version |-> ""]
  /\ \/ openIn \in {[query |-> q, params |-> <<>>] : q \in {"fail", "scanerr"}}
     \/ \E n \in 0..MaxParams :
          openIn \in {[query |-> "rows", params |-> ps] : ps \in [1..n -> ParamValues]}

(***************************************************************************)
(* defaultExpr, canConvert                                                 *)
(***************************************************************************)
Literal(v) == [kind |-> "Literal", V |-> v]
RawExpr(x) == [kind |-> "RawExpr", V |-> x]

\* sqlx.IsLiteralBool
IsLiteralBool(s) == ToLower(s) \in {"true", "false"}

\* sqlx.IsLiteralNumber: an optional sign, digits, at most one point
IsLiteralNumber(s) ==
  LET signed == Len(s) > 0 /\ CharAt(s, 1) \in {"+", "-"}
      body   == IF signed THEN SubSeq(s, 2, Len(s)) ELSE s
  IN /\ \E i \in 1..Len(body) : IsDigit(CharAt(body, i))
     /\ \A i \in 1..Len(body) : IsDigit(CharAt(body, i)) \/ CharAt(body, i) = "."
     /\ Cardinality({i \in 1..Len(body) : CharAt(body, i) = "."}) <= 1

\* sqlx.IsQuoted(s, '\''): s opens and closes with the quote and has none inside
IsQuoted(s) ==
  /\ Len(s) >= 2
  /\ CharAt(s, 1) = "'" /\ CharAt(s, Len(s)) = "'"
  /\ \A i \in 2..(Len(s) - 1) : CharAt(s, i) # "'"

\* strings.Index: the offset of the first occurrence of sub in s, -1 if none
Index(s, sub) ==
  LET at == {i \in 0..(Len(s) - Len(sub)) : SubSeq(s, i + 1, i + Len(sub)) = sub}
  IN IF at = {} THEN 0 - 1 ELSE CHOOSE i \in at : \A j \in at : i <= j

Converted(v) == [v |-> v, ok |-> TRUE]
NotConverted == [v |-> "", ok |-> FALSE]

canConvert(t, x) ==
  LET r == t.Raw
      i == Index(x, "::" \o r)
  IN IF i = 0 - 1 \/ ~IsQuoted(SubSeq(x, 1, i))
     THEN NotConverted
     ELSE LET q     == SubSeq(x, 1, i)
              inner == SubSeq(x, 2, i - 1)
          IN CASE t.Type.kind = "Bool" ->
                    IF IsLiteralBool(inner) THEN Converted(inner) ELSE NotConverted
               [] t.Type.kind \in {"Decimal", "Integer", "Float"} ->
                    IF IsLiteralNumber(inner) THEN Converted(inner) ELSE NotConverted
               [] t.Type.kind \in {"Binary", "JSON", "String", "Time"} -> Converted(q)
               [] OTHER -> NotConverted

defaultExpr(c, x) ==
  IF IsLiteralBool(x) \/ IsLiteralNumber(x) \/ IsQuoted(x)
  THEN Literal(x)
  ELSE LET v == canConvert(c, x) IN
       IF v.ok THEN Literal(v.v) ELSE RawExpr(x)

(***************************************************************************)
(* The conversion layer as a state machine: an input is drawn (a type      *)
(* string for ParseType, a catalog descriptor for columnType, or a type    *)
(* value handed to FormatType directly) and the functions are applied.     *)
(***************************************************************************)
VARIABLES
  tstep,     \* "idle" | "string" | "desc" | "type" | "formatted" | "failed"
  origin,    \* where cur comes from: "parse" | "catalog" | "direct" | "none"
  typeIn,    \* the type string given to ParseType
  descIn,    \* the descriptor handed to columnType, by addColumn or by ParseType
  parseRes,  \* what ParseType returned
  cur,       \* the schema.Type at hand
  fmtRes,    \* what FormatType returned
  colIn,     \* the column defaultExpr is called with: [Raw, Type]
  defaultIn, \* the default text defaultExpr is called with
  defaultRes \* what defaultExpr returned

dvars == <<colIn, defaultIn, defaultRes>>
tvars == <<tstep, origin, typeIn, descIn, parseRes, cur, fmtRes, dvars, openIn, openRes>>

\* the sizes, precisions and scales inputs are drawn from
Sizes == {MinSized + d : d \in (0 - MaxDelta)..MaxDelta}
           \cup {MaxSized + d : d \in (0 - MaxDelta)..MaxDelta}
Facets == (0 - 1)..MaxFacet

Sized(kw, n) == kw \o "(" \o FormatInt(n) \o ")"

TypeStrings ==
  {Sized(kw, n) : kw \in {TypeVarchar, TypeNVarchar, TypeChar, TypeNChar}, n \in Sizes}
  \cup {Sized(TypeNumber, p) : p \in Facets \ {0 - 1}}
  \cup {TypeNumber \o "(" \o FormatInt(p) \o "," \o FormatInt(s) \o ")" :
          p \in Facets \ {0 - 1}, s \in Facets \ {0 - 1}}
  \cup {TypeNumber, TypeInt, TypeFloat, TypeDouble, TypeDate, TypeTimestamp,
        TypeTimestampTZ, TypeTimestampLTZ, TypeJSON, TypeRaw, TypeIntervalDS,
        TypeIntervalYM, TypeCLOB, TypeBLOB, TypeRowID, TypeLongVarchar,
        "raw(16)", "INT", "Date", "mytype", "varchar2(255)", "number(10,2)",
        " varchar2 ( 255 ) ", "number(5, 2)",
        "", "( )", "char", "nchar", "varchar2", "nvarchar2",
        "char(10 byte)", "varchar2(x)", "varchar2(x y)", "varchar2(10 char)",
        "number(x)", "number(1,y)", "number(-1)", "number(3,-1)"}

\* the rows of the columns query, as addColumn hands them to columnType
Descriptors ==
  {columnDesc(typ, n, 0, 0, <<>>) :
     typ \in {"VARCHAR2", "NVARCHAR2", "CHAR", "NCHAR", "RAW"}, n \in Sizes}
  \cup {columnDesc("NUMBER", 0, p, s, <<>>) : p \in Facets, s \in Facets}
  \cup {columnDesc(typ, 0, p, 0, <<>>) : typ \in {"FLOAT", "DOUBLE", "float"}, p \in {0, 126}}
  \cup {columnDesc(typ, 0, 0, 0, <<>>) :
          typ \in {"DATE", "TIMESTAMP", "TIMESTAMP WITH TIME ZONE",
                   "TIMESTAMP WITH LOCAL TIME ZONE", "INT", "JSON",
                   "INTERVAL DAY SECOND", "INTERVAL YEAR MONTH", "interval day second",
                   "CLOB", "BLOB", "ROWID", "XMLTYPE", "TIMESTAMP(6)", ""}}

\* the values FormatType is called with directly
TypeValues ==
  {BinaryType(TypeRaw, n) : n \in Sizes \cup {0 - 1, 0}}
  \cup {StringType(T, n) : T \in {TypeVarchar, TypeChar}, n \in Sizes \cup {0 - 1, 0}}
  \cup {DecimalType(TypeNumber, p, s) : p \in Facets \cup {38}, s \in Facets}
  \cup {IntegerType(T) : T \in {TypeInt, "integer"}}
  \cup {TimeType(T) : T \in {TypeDate, TypeTimestamp, TypeTimestampTZ, TypeTimestampLTZ,
                             "DATE", "datetime", ""}}
  \cup {FloatType(T, p) : T \in {TypeFloat, TypeDouble, "real"}, p \in {0, 24}}
  \cup {JSONType(T) : T \in {TypeJSON, "JSON", "jsonb"}}
  \cup {UnsupportedType(T) : T \in {TypeIntervalDS, "xmltype", ""}}
  \cup {UserDefinedType(T) : T \in {"mytype", TypeCLOB}}
  \cup {BoolType("bool"), NoType}

\* nothing parsed, nothing formatted, no descriptor yet
NoParse == [outcome |-> "none", t |-> NoType, msg |-> ""]
NoFormat == [f |-> "", err |-> "none"]
NoDesc == columnDesc("", 0, 0, 0, <<>>)

\* the columns defaultExpr is called with: the raw spelling and the type
ColumnType(raw, ty) == [Raw |-> raw, Type |-> ty]
NoColumn == ColumnType("", NoType)
DefaultColumns ==
  {ColumnType(TypeDate, TimeType(TypeDate)),
   ColumnType("DATE", TimeType("DATE")),
   ColumnType(TypeNumber, DecimalType(TypeNumber, 0, 0)),
   ColumnType(TypeInt, IntegerType(TypeInt)),
   ColumnType(TypeFloat, FloatType(TypeFloat, 0)),
   ColumnType("bool", BoolType("bool")),
   ColumnType(TypeVarchar, StringType(TypeVarchar, 10)),
   ColumnType(TypeRaw, BinaryType(TypeRaw, 0)),
   ColumnType(TypeJSON, JSONType(TypeJSON)),
   ColumnType("xmltype", UnsupportedType("xmltype"))}

\* the default texts defaultExpr is called with
DefaultTexts ==
  {"true", "1", "-1.5", "'a'", "'2021-01-01'", "now()", "sysdate", "a",
   "'2021-01-01'::date", "'2021-01-01'::DATE", "'1'::number", "'x'::number",
   "'1'::int", "'1.5'::float", "'true'::bool", "'1'::bool", "'a'::varchar2",
   "'a'::raw", "'{}'::json", "'a'::xmltype", "'a'::text",
   "'2021-01-01'::date + 1", "'a'::dates", "a::date", "::date", "''::date",
   "'a' || 'b'::varchar2", "'1'::number(10)"}

NoDefault == [kind |-> "none", V |-> ""]

TypesIdle ==
  /\ tstep = "idle" /\ origin = "none" /\ typeIn = "" /\ descIn = NoDesc
  /\ parseRes = NoParse /\ cur = NoType /\ fmtRes = NoFormat
  /\ colIn = NoColumn /\ defaultIn = "" /\ defaultRes = NoDefault

TypesInit ==
  /\ parseRes = NoParse /\ fmtRes = NoFormat /\ defaultRes = NoDefault
  /\ \/ /\ tstep = "string" /\ origin = "parse"
        /\ typeIn \in TypeStrings /\ descIn = NoDesc /\ cur = NoType
        /\ colIn = NoColumn /\ defaultIn = ""
     \/ /\ tstep = "desc" /\ origin = "catalog"
        /\ typeIn = "" /\ descIn \in Descriptors /\ cur = NoType
        /\ colIn = NoColumn /\ defaultIn = ""
     \/ /\ tstep = "type" /\ origin = "direct"
        /\ typeIn = "" /\ descIn = NoDesc /\ cur \in TypeValues
        /\ colIn = NoColumn /\ defaultIn = ""
     \/ /\ tstep = "default" /\ origin = "default"
        /\ typeIn = "" /\ descIn = NoDesc /\ cur = NoType
        /\ colIn \in DefaultColumns /\ defaultIn \in DefaultTexts


(***************************************************************************)
(* The inspector.  One call (InspectRealm, InspectSchema or InspectTable)  *)
(* runs at a time; the query executor answers each query and each          *)
(* rows.Next() as it pleases, within the catalog below.                    *)
(***************************************************************************)
\* index and check rows the executor delivers in one call, at most
MaxRows == 3
\* failures (of a query, a scan or a row stream) the executor injects in one call, at most
MaxFaults == 1

VARIABLES
  op,        \* the call: [kind, name, schema, filter]
  pc,        \* where the call stands
  schemas,   \* the local `schemas` of InspectRealm / InspectSchema
  realm,     \* 0: no Realm yet; 1: the Realm whose Schemas are `schemas`
  names,     \* the table names of the schema at hand
  si,        \* position in schemas (range loop of InspectRealm)
  ti,        \* position in names
  t,         \* the table inspectTable is building
  rows,      \* rows the open stream has delivered so far
  idxNames,  \* addIndexes' map names: index name -> position in t.heap (0: absent)
  chkNames,  \* addChecks' map names: check name -> position in t.Attrs (0: absent)
  idxSeen,   \* history: the index rows addIndexes has appended a part for
  chkSeen,   \* history: the check rows addChecks has taken
  log,       \* history: the queries issued, in order
  hist,      \* history: what the executor did to this call
  ret,       \* what the call returned
  rowsLeft   \* index and check rows the executor may still deliver

ivars == <<op, pc, schemas, realm, names, si, ti, t, rows, idxNames, chkNames,
           idxSeen, chkSeen, log, hist, ret, rowsLeft>>

vars == <<tvars, ivars>>

(***************************************************************************)
(* The catalog behind the query executor.                                  *)
(***************************************************************************)
\* all_users, ORDER BY user_name
CatalogSchemas == <<"S1", "S2">>
\* what USERENV('CURRENT SCHEMA') may answer: a listed user or one that is not
AttachedSchemas == {"S1", "S9"}
\* all_tables of an owner, ORDER BY table_name
CatalogTables(owner) ==
  CASE owner = "S1" -> <<"T1", "T2">>
    [] owner = "S2" -> <<"T2">>
    [] OTHER -> <<>>
\* the rows of the columns query of any table
CatalogColumns ==
  << [name |-> "a", desc |-> columnDesc("VARCHAR2", 10, 0, 0, <<>>)],
     [name |-> "b", desc |-> columnDesc("NUMBER", 0, 10, 2, <<>>)] >>
\* the rows the indexes query may deliver ("" is NULL)
\* ("z" is a column no table has).  Table T1 may have any of them, in any
\* order; T2 has at most a primary key on a
IndexNames == {"i1", "i2"}
IndexRow(n, c, x, p) == [name |-> n, column |-> c, expr |-> x, primary |-> p, uniq |-> p]
IndexRows(table) ==
  IF table = "T1"
  THEN {IndexRow(n, c, "", p) : n \in IndexNames, c \in {"a", "z", ""}, p \in BOOLEAN}
       \cup {IndexRow(n, "", "lower(a)", FALSE) : n \in IndexNames}
  ELSE {IndexRow("i1", "a", "", TRUE)}
\* the rows the checks query may deliver: T1 any of them, T2 at most one
CheckNames == {"c1", "c2"}
CheckRow(n, c) == [name |-> n, clause |-> "a > 0", column |-> c, noInherit |-> FALSE]
CheckRows(table) ==
  IF table = "T1"
  THEN {CheckRow(n, c) : n \in CheckNames, c \in {"a", "b", "z"}}
  ELSE {CheckRow("c1", "b")}

\* sqlx.ValidString of a sql.NullString
ValidString(s) == s # "" /\ ToLower(s) # "null"

(***************************************************************************)
(* Entities.                                                               *)
(***************************************************************************)
NoSchemaRef == [ref |-> "nil", id |-> 0, Name |-> ""]
\* a *schema.Schema: an element of `schemas` (by position) or a Schema of its own
TopSchema(i) == [ref |-> "top", id |-> i, Name |-> ""]
SynthSchema(n) == [ref |-> "own", id |-> 0, Name |-> n]

Schema(n) == [Name |-> n, Tables |-> <<>>, Realm |-> 0, realmSets |-> 0]

Table(n, sch) ==
  [Name |-> n, Schema |-> sch, Columns |-> <<>>, Indexes |-> <<>>, PrimaryKey |-> 0,
   Attrs |-> <<>>, ForeignKeys |-> "none", heap |-> <<>>]
NoTable == Table("", NoSchemaRef)

Comment(text) == [attr |-> "Comment", Name |-> "", Expr |-> text, Columns |-> <<>>]
Check(n, clause) == [attr |-> "Check", Name |-> n, Expr |-> clause, Columns |-> <<>>]

EmptyIdxNames == [n \in IndexNames |-> 0]
EmptyChkNames == [n \in CheckNames |-> 0]

\* schema.Table.Column(name): the position of the first column of that name, 0 if none
TableColumn(tb, name) ==
  IF \E i \in 1..Len(tb.Columns) : tb.Columns[i].Name = name
  THEN CHOOSE i \in 1..Len(tb.Columns) :
         /\ tb.Columns[i].Name = name
         /\ \A j \in 1..(i - 1) : tb.Columns[j].Name # name
  ELSE 0

(***************************************************************************)
(* Errors.                                                                 *)
(***************************************************************************)
ErrNoRows          == "sql: no rows in result set"
ErrTableNotExist   == "NotExistError: table was not found"
ErrSchemaNotExist  == "NotExistError: schema was not found"
ErrQuery           == "query failed"
ErrScan            == "scan failed"
ErrRows            == "rows.Err"
ErrIndexColumn     == "oracle: column was not found for index"
ErrIndexPart       == "oracle: invalid part for index"
ErrCheckColumn     == "oracle: column was not found for check"
IsNotExist(e) == e \in {ErrTableNotExist, ErrSchemaNotExist}

NoRet == [done |-> FALSE, err |-> "", val |-> "nil"]
NoHist == [identity |-> "none", missingIdxCol |-> FALSE, missingChkCol |-> FALSE,
           streamFailed |-> FALSE, queryFailed |-> FALSE, scanFailed |-> FALSE,
           faults |-> 0, attached |-> "", failedAt |-> 0]

Query(q, arg) == [q |-> q, arg |-> arg]

InspectorIdle ==
  /\ op = [kind |-> "none", name |-> "", schema |-> "", filter |-> <<>>]
  /\ pc = "idle"
  /\ schemas = <<>> /\ realm = 0 /\ names = <<>> /\ si = 0 /\ ti = 0
  /\ t = NoTable /\ rows = 0
  /\ idxNames = EmptyIdxNames /\ chkNames = EmptyChkNames
  /\ idxSeen = <<>> /\ chkSeen = <<>>
  /\ log = <<>> /\ hist = NoHist /\ ret = NoRet
  /\ rowsLeft = MaxRows

\* `return nil, err`: the call is over and what it had assembled is dropped
ReturnError(e) ==
  /\ ret' = [done |-> TRUE, err |-> e, val |-> "nil"]
  /\ pc' = "done"
  /\ schemas' = <<>> /\ realm' = 0 /\ names' = <<>> /\ si' = 0 /\ ti' = 0
  /\ t' = NoTable /\ rows' = 0
  /\ idxNames' = EmptyIdxNames /\ chkNames' = EmptyChkNames
  /\ idxSeen' = <<>> /\ chkSeen' = <<>>

\* the table and the owning schema inspectTable was called with
CurTableName == IF op.kind = "InspectTable" THEN op.name ELSE names[ti]
CurTop == IF op.kind = "InspectTable" THEN 0 ELSE si
CurSchemaOpt == IF op.kind = "InspectTable" THEN op.schema ELSE schemas[si].Name

(***************************************************************************)
(* Row decoders.                                                           *)
(***************************************************************************)
\* addColumn: the column a scanned row of the columns query gives
addColumn(tb, row) ==
  [tb EXCEPT !.Columns =
     Append(@, [Name |-> row.name, Type |-> columnType(row.desc), Indexes |-> <<>>])]

\* SeqNo counted from 0
NextSeqNo_FromZero(parts) == Len(parts)

\* SeqNo: len(idx.Parts) + 1
NextSeqNo(parts) == Len(parts) + 1

\* what one pass of the loop of addIndexes does with a scanned row:
\* the table, the map and the error it returns with ("": none, the loop goes on)
IndexRowResult(tb, nm, err) == [t |-> tb, names |-> nm, err |-> err]

\* the part is dropped and the loop goes on
MissingIndexColumn_Skip(tb, nm, idx, part) == IndexRowResult(tb, nm, "")

\* the branch of addIndexes for a part whose column the table does not have
MissingIndexColumn(tb, nm, idx, part) == IndexRowResult(tb, nm, ErrIndexColumn)

addIndexRow(tb, nm, r) ==
  LET isNew == nm[r.name] = 0
      id    == IF isNew THEN Len(tb.heap) + 1 ELSE nm[r.name]
      tb1   == IF isNew
               THEN [tb EXCEPT
                       !.heap = Append(@, [Name |-> r.name, Unique |-> r.uniq, Parts |-> <<>>]),
                       !.PrimaryKey = IF r.primary THEN id ELSE @,
                       !.Indexes = IF r.primary THEN @ ELSE Append(@, id)]
               ELSE tb
      nm1   == [nm EXCEPT ![r.name] = id]
      seqno == NextSeqNo(tb1.heap[id].Parts)
      ci    == TableColumn(tb1, r.column)
  IN CASE ValidString(r.expr) ->
            IndexRowResult(
              [tb1 EXCEPT !.heap[id].Parts = Append(@, [SeqNo |-> seqno, C |-> 0, X |-> r.expr])],
              nm1, "")
       [] ~ValidString(r.expr) /\ ValidString(r.column) ->
            IF ci = 0
            THEN MissingIndexColumn(tb1, nm1, id, [SeqNo |-> seqno, C |-> 0, X |-> ""])
            ELSE IndexRowResult(
                   [tb1 EXCEPT !.Columns[ci].Indexes = Append(@, id),
                               !.heap[id].Parts = Append(@, [SeqNo |-> seqno, C |-> ci, X |-> ""])],
                   nm1, "")
       [] OTHER -> IndexRowResult(tb1, nm1, ErrIndexPart)

\* what one pass of the loop of addChecks does with a scanned row
CheckRowResult(tb, nm, err) == [t |-> tb, names |-> nm, err |-> err]

\* the row is dropped and the loop goes on
MissingCheckColumn_Skip(tb, nm, r) == CheckRowResult(tb, nm, "")

\* the branch of addChecks for a row whose column the table does not have
MissingCheckColumn(tb, nm, r) == CheckRowResult(tb, nm, ErrCheckColumn)

addCheckRow(tb, nm, r) ==
  IF TableColumn(tb, r.column) = 0
  THEN MissingCheckColumn(tb, nm, r)
  ELSE LET isNew == nm[r.name] = 0
           at    == IF isNew THEN Len(tb.Attrs) + 1 ELSE nm[r.name]
           tb1   == IF isNew
                    THEN [tb EXCEPT !.Attrs = Append(@, Check(r.name, r.clause))]
                    ELSE tb
       IN CheckRowResult([tb1 EXCEPT !.Attrs[at].Columns = Append(@, r.column)],
                         [nm EXCEPT ![r.name] = at], "")

\* sqlx.ScanOne on the answer of a single-row query: the error it returns
ScanOne(rs) ==
  CASE rs = "norows"  -> ErrNoRows
    [] rs = "scanerr" -> ErrScan
    [] OTHER -> ""

\* the error of ScanOne handed on as it is
tableError_Unmapped(e) == e

\* i.table: the error returned for the error of ScanOne
tableError(e) == IF e = ErrNoRows THEN ErrTableNotExist ELSE e

\* the linker on one table: for each index of the table and each of its
\* parts that names a column, the index is appended to the column's list
LinkColumns(tb) ==
  LET ids == tb.Indexes \o (IF tb.PrimaryKey # 0 THEN <<tb.PrimaryKey>> ELSE <<>>)
      RECURSIVE Refs(_, _, _)
      Refs(ci, n, k) ==
        IF n > Len(ids) THEN <<>>
        ELSE IF k > Len(tb.heap[ids[n]].Parts) THEN Refs(ci, n + 1, 1)
        ELSE (IF tb.heap[ids[n]].Parts[k].C = ci THEN <<ids[n]>> ELSE <<>>)
               \o Refs(ci, n, k + 1)
  IN [tb EXCEPT !.Columns =
        [ci \in 1..Len(tb.Columns) |->
           [tb.Columns[ci] EXCEPT !.Indexes = @ \o Refs(ci, 1, 1)]]]

\* sqlx.LinkSchemaTables: every table's Schema is the schema that lists it,
\* and the columns of every table are linked to its indexes
LinkSchemaTables(ss) ==
  [i \in 1..Len(ss) |->
     [ss[i] EXCEPT !.Tables =
        [k \in 1..Len(ss[i].Tables) |->
           LinkColumns([ss[i].Tables[k] EXCEPT !.Schema = TopSchema(i)])]]]

\* the rows the schemas query selects
SchemasResult ==
  IF op.kind = "InspectRealm"
  THEN IF Len(op.filter) = 0 THEN CatalogSchemas
       ELSE SelectSeq(CatalogSchemas, LAMBDA n : \E k \in 1..Len(op.filter) : op.filter[k] = n)
  ELSE SelectSeq(CatalogSchemas, LAMBDA n : n = op.name)

(***************************************************************************)
(* The steps of a call.                                                    *)
(***************************************************************************)
Issue(q, arg) == log' = Append(log, Query(q, arg))
Failure(field) ==
  /\ hist.faults < MaxFaults
  /\ hist' = [hist EXCEPT !.streamFailed = @ \/ field = "stream",
                          !.queryFailed = @ \/ field = "query",
                          !.scanFailed = @ \/ field = "scan",
                          !.failedAt = IF field = "query" THEN Len(log) + 1 ELSE @,
                          !.faults = @ + 1]

\* a caller invokes one of the three operations of the Inspector
Call ==
  /\ pc = "idle"
  /\ \/ \E f \in {<<>>, <<"S2">>, <<"S9">>} :
          /\ op' = [kind |-> "InspectRealm", name |-> "", schema |-> "", filter |-> f]
          /\ pc' = "schemas.query"
     \/ \E n \in {"", "S1", "S9"} :
          /\ op' = [kind |-> "InspectSchema", name |-> n, schema |-> "", filter |-> <<>>]
          /\ pc' = IF n = "" THEN "attached.query" ELSE "schemas.query"
     \/ \E n \in {"T1"}, sc \in {"", "S1"} :
          /\ op' = [kind |-> "InspectTable", name |-> n, schema |-> sc, filter |-> <<>>]
          /\ pc' = "table.query"
  /\ UNCHANGED <<schemas, realm, names, si, ti, t, rows, idxNames, chkNames, idxSeen,
                 chkSeen, log, hist, ret, rowsLeft, tvars>>

\* i.schemas: the query
Schemas_Query ==
  /\ pc = "schemas.query"
  /\ Issue("schemas", IF op.kind = "InspectRealm" THEN op.filter ELSE <<op.name>>)
  /\ UNCHANGED <<op, rowsLeft, tvars>>
  /\ \/ /\ Failure("query")
        /\ ReturnError(ErrQuery)
     \/ /\ pc' = "schemas.next"
        /\ rows' = 0
        /\ schemas' = <<>>
        /\ UNCHANGED <<hist, ret, realm, names, si, ti, t, idxNames, chkNames, idxSeen, chkSeen>>

\* `return schemas, nil` of i.schemas, and what its caller does next:
\* InspectRealm makes the Realm and enters its loop; InspectSchema returns a
\* NotExistError for an empty list
SchemasReturned ==
  IF op.kind = "InspectSchema" /\ Len(schemas) = 0
  THEN ReturnError(ErrSchemaNotExist)
  ELSE /\ realm' = IF op.kind = "InspectRealm" THEN 1 ELSE realm
       /\ si' = 1
       /\ pc' = IF op.kind = "InspectRealm" THEN "realm.schema" ELSE "tables.query"
       /\ rows' = 0
       /\ UNCHANGED <<ret, schemas, names, ti, t, idxNames, chkNames, idxSeen, chkSeen>>

\* i.schemas: one rows.Next() of the loop
Schemas_Next ==
  /\ pc = "schemas.next"
  /\ UNCHANGED <<op, log, rowsLeft, tvars>>
  /\ \/ /\ rows < Len(SchemasResult)          \* a row, scanned
        /\ schemas' = Append(schemas, Schema(SchemasResult[rows + 1]))
        /\ rows' = rows + 1
        /\ UNCHANGED <<hist, pc, ret, realm, names, si, ti, t, idxNames, chkNames, idxSeen, chkSeen>>
     \/ /\ rows < Len(SchemasResult)          \* a row, rows.Scan fails
        /\ Failure("scan")
        /\ ReturnError(ErrScan)
     \/ /\ rows = Len(SchemasResult)          \* the end of the rows
        /\ hist' = hist
        /\ SchemasReturned
     \/ /\ Failure("stream")                  \* the stream fails: Next is false, Err is not read
        /\ SchemasReturned

\* InspectSchema, empty name: SELECT USERENV('CURRENT SCHEMA') and sqlx.ScanOne
Attached_Query ==
  /\ pc = "attached.query"
  /\ Issue("attached", "")
  /\ UNCHANGED <<op, rowsLeft, tvars>>
  /\ \/ /\ Failure("query")
        /\ ReturnError(ErrQuery)
     \/ /\ Failure("scan")
        /\ ReturnError(ErrScan)
     \/ \E n \in AttachedSchemas :
          /\ schemas' = <<Schema(n)>>
          /\ si' = 1
          /\ pc' = "tables.query"
          /\ hist' = [hist EXCEPT !.attached = n]
          /\ UNCHANGED <<ret, realm, names, ti, t, rows, idxNames, chkNames, idxSeen, chkSeen>>

\* InspectRealm: the head of `for _, s := range schemas`, and the return
Realm_NextSchema ==
  /\ pc = "realm.schema"
  /\ UNCHANGED <<op, log, hist, rowsLeft, tvars>>
  /\ \/ /\ si <= Len(schemas)
        /\ pc' = "tables.query"
        /\ UNCHANGED <<ret, schemas, realm, names, si, ti, t, rows, idxNames, chkNames, idxSeen, chkSeen>>
     \/ /\ si > Len(schemas)
        /\ schemas' = LinkSchemaTables(schemas)
        /\ ret' = [done |-> TRUE, err |-> "", val |-> "Realm"]
        /\ pc' = "done"
        /\ UNCHANGED <<realm, names, si, ti, t, rows, idxNames, chkNames, idxSeen, chkSeen>>

\* i.tableNames: the query and sqlx.ScanStrings
TableNames ==
  /\ pc = "tables.query"
  /\ Issue("tables", schemas[si].Name)
  /\ UNCHANGED <<op, rowsLeft, tvars>>
  /\ \/ /\ Failure("query")
        /\ ReturnError(ErrQuery)
     \/ /\ Failure("scan")
        /\ ReturnError(ErrScan)
     \/ /\ names' = CatalogTables(schemas[si].Name)
        /\ ti' = 1
        /\ pc' = "tables.loop"
        /\ UNCHANGED <<hist, ret, schemas, realm, si, t, rows, idxNames, chkNames, idxSeen, chkSeen>>

\* the Realm of the schema is left unset
SetRealm_Skip(s, r) == s

\* s.Realm = realm
SetRealm(s, r) == [s EXCEPT !.Realm = r, !.realmSets = @ + 1]

\* the head of `for _, name := range names`; after the loop InspectRealm
\* sets s.Realm and takes the next schema, InspectSchema links and returns
Tables_Next ==
  /\ pc = "tables.loop"
  /\ UNCHANGED <<op, log, hist, rowsLeft, tvars>>
  /\ \/ /\ ti <= Len(names)
        /\ pc' = "table.query"
        /\ UNCHANGED <<ret, schemas, realm, names, si, ti, t, rows, idxNames, chkNames, idxSeen, chkSeen>>
     \/ /\ ti > Len(names)
        /\ op.kind = "InspectRealm"
        /\ schemas' = [schemas EXCEPT ![si] = SetRealm(@, realm)]
        /\ si' = si + 1
        /\ pc' = "realm.schema"
        /\ UNCHANGED <<ret, realm, names, ti, t, rows, idxNames, chkNames, idxSeen, chkSeen>>
     \/ /\ ti > Len(names)
        /\ op.kind = "InspectSchema"
        /\ realm' = 1
        /\ schemas' = [LinkSchemaTables(schemas) EXCEPT ![1] = SetRealm(@, 1)]
        /\ ret' = [done |-> TRUE, err |-> "", val |-> "Schema"]
        /\ pc' = "done"
        /\ UNCHANGED <<names, si, ti, t, rows, idxNames, chkNames, idxSeen, chkSeen>>

\* i.table (and the `t.Schema = top` of inspectTable): the identity query
Table_Query ==
  /\ pc = "table.query"
  /\ Issue("table", CurTableName)
  /\ UNCHANGED <<op, rowsLeft, tvars>>
  /\ \/ /\ hist.faults < MaxFaults
        /\ hist' = [hist EXCEPT !.identity = "fail", !.queryFailed = TRUE,
                                !.failedAt = Len(log) + 1, !.faults = @ + 1]
        /\ ReturnError(ErrQuery)
     \/ /\ hist.faults < MaxFaults
        /\ hist' = [hist EXCEPT !.identity = "scanerr", !.scanFailed = TRUE, !.faults = @ + 1]
        /\ ReturnError(tableError(ScanOne("scanerr")))
     \/ /\ hist' = [hist EXCEPT !.identity = "norows"]
        /\ ReturnError(tableError(ScanOne("norows")))
     \/ /\ tableError(ScanOne("row")) = ""
        /\ hist' = [hist EXCEPT !.identity = "row"]
        /\ LET tSchema == IF CurSchemaOpt # "" THEN CurSchemaOpt ELSE "S1"
               made == Table(CurTableName, SynthSchema(tSchema))
               commented == IF CurTableName = "T1"
                            THEN [made EXCEPT !.Attrs = Append(@, Comment("the first table"))]
                            ELSE made
           IN t' = IF CurTop # 0 THEN [commented EXCEPT !.Schema = TopSchema(CurTop)]
                   ELSE commented
        /\ pc' = "columns.query"
        /\ idxNames' = EmptyIdxNames /\ chkNames' = EmptyChkNames
        /\ idxSeen' = <<>> /\ chkSeen' = <<>>
        /\ UNCHANGED <<ret, schemas, realm, names, si, ti, rows>>

\* i.columns: the query
Columns_Query ==
  /\ pc = "columns.query"
  /\ Issue("columns", t.Name)
  /\ UNCHANGED <<op, rowsLeft, tvars>>
  /\ \/ /\ Failure("query")
        /\ ReturnError(ErrQuery)
     \/ /\ pc' = "columns.next"
        /\ rows' = 0
        /\ UNCHANGED <<hist, ret, schemas, realm, names, si, ti, t, idxNames, chkNames, idxSeen, chkSeen>>

\* i.columns: one rows.Next() of the loop; after the loop rows.Close() is nil,
\* for Next has closed the rows when it returned false
Columns_Next ==
  /\ pc = "columns.next"
  /\ UNCHANGED <<op, log, rowsLeft, tvars>>
  /\ \/ /\ rows < Len(CatalogColumns)
        /\ t' = addColumn(t, CatalogColumns[rows + 1])
        /\ rows' = rows + 1
        /\ UNCHANGED <<hist, pc, ret, schemas, realm, names, si, ti, idxNames, chkNames, idxSeen, chkSeen>>
     \/ /\ rows < Len(CatalogColumns)
        /\ Failure("scan")
        /\ ReturnError(ErrScan)
     \/ /\ rows = Len(CatalogColumns)
        /\ pc' = "indexes.query"
        /\ UNCHANGED <<hist, ret, schemas, realm, names, si, ti, t, rows, idxNames, chkNames, idxSeen, chkSeen>>
     \/ /\ Failure("stream")
        /\ pc' = "indexes.query"
        /\ UNCHANGED <<ret, schemas, realm, names, si, ti, t, rows, idxNames, chkNames, idxSeen, chkSeen>>

\* inspectTable takes the checks right after the indexes
AfterIndexes_SkipFKs == "checks.query"

\* inspectTable: what follows i.indexes
AfterIndexes == "fks.query"

\* i.indexes: the query
Indexes_Query ==
  /\ pc = "indexes.query"
  /\ Issue("indexes", t.Name)
  /\ UNCHANGED <<op, rowsLeft, tvars>>
  /\ \/ /\ Failure("query")
        /\ ReturnError(ErrQuery)
     \/ /\ pc' = "indexes.next"
        /\ rows' = 0
        /\ UNCHANGED <<hist, ret, schemas, realm, names, si, ti, t, idxNames, chkNames, idxSeen, chkSeen>>

\* addIndexes: one rows.Next() of the loop; after it, `return rows.Err()`
Indexes_Next ==
  /\ pc = "indexes.next"
  /\ UNCHANGED <<op, log, tvars>>
  /\ \/ \E r \in IndexRows(t.Name) :
          LET res == addIndexRow(t, idxNames, r) IN
          /\ rowsLeft > 0
          /\ rowsLeft' = rowsLeft - 1
          /\ hist' = [hist EXCEPT !.missingIdxCol =
                        @ \/ (~ValidString(r.expr) /\ ValidString(r.column)
                              /\ \A i \in 1..Len(t.Columns) : t.Columns[i].Name # r.column)]
          /\ IF res.err # ""
             THEN ReturnError(res.err)
             ELSE /\ t' = res.t
                  /\ idxNames' = res.names
                  /\ idxSeen' = Append(idxSeen, r)
                  /\ rows' = rows + 1
                  /\ UNCHANGED <<pc, ret, schemas, realm, names, si, ti, chkNames, chkSeen>>
     \/ /\ rowsLeft > 0                        \* a row, rows.Scan fails
        /\ rowsLeft' = rowsLeft - 1
        /\ Failure("scan")
        /\ ReturnError(ErrScan)
     \/ /\ pc' = AfterIndexes                  \* the end of the rows
        /\ UNCHANGED <<hist, rowsLeft, ret, schemas, realm, names, si, ti, t, rows, idxNames, chkNames, idxSeen, chkSeen>>
     \/ /\ Failure("stream")                   \* the stream fails: rows.Err() is returned
        /\ rowsLeft' = rowsLeft
        /\ ReturnError(ErrRows)

\* i.fks: the query, sqlx.ScanFKs and rows.Err()
FKs_Query ==
  /\ pc = "fks.query"
  /\ Issue("fks", t.Name)
  /\ UNCHANGED <<op, rowsLeft, tvars>>
  /\ \/ /\ Failure("query")
        /\ ReturnError(ErrQuery)
     \/ /\ Failure("scan")
        /\ ReturnError(ErrScan)
     \/ /\ Failure("stream")
        /\ ReturnError(ErrRows)
     \/ /\ t' = [t EXCEPT !.ForeignKeys = "scanned"]
        /\ pc' = "checks.query"
        /\ UNCHANGED <<hist, ret, schemas, realm, names, si, ti, rows, idxNames, chkNames, idxSeen, chkSeen>>

\* i.checks: the query
Checks_Query ==
  /\ pc = "checks.query"
  /\ Issue("checks", t.Name)
  /\ UNCHANGED <<op, rowsLeft, tvars>>
  /\ \/ /\ Failure("query")
        /\ ReturnError(ErrQuery)
     \/ /\ pc' = "checks.next"
        /\ rows' = 0
        /\ UNCHANGED <<hist, ret, schemas, realm, names, si, ti, t, idxNames, chkNames, idxSeen, chkSeen>>

\* addChecks: one rows.Next() of the loop; after it, `return rows.Err()`
Checks_Next ==
  /\ pc = "checks.next"
  /\ UNCHANGED <<op, log, tvars>>
  /\ \/ \E r \in CheckRows(t.Name) :
          LET res == addCheckRow(t, chkNames, r) IN
          /\ rowsLeft > 0
          /\ rowsLeft' = rowsLeft - 1
          /\ hist' = [hist EXCEPT !.missingChkCol =
                        @ \/ \A i \in 1..Len(t.Columns) : t.Columns[i].Name # r.column]
          /\ IF res.err # ""
             THEN ReturnError(res.err)
             ELSE /\ t' = res.t
                  /\ chkNames' = res.names
                  /\ chkSeen' = Append(chkSeen, r)
                  /\ rows' = rows + 1
                  /\ UNCHANGED <<pc, ret, schemas, realm, names, si, ti, idxNames, idxSeen>>
     \/ /\ rowsLeft > 0
        /\ rowsLeft' = rowsLeft - 1
        /\ Failure("scan")
        /\ ReturnError(ErrScan)
     \/ /\ pc' = "table.return"
        /\ UNCHANGED <<hist, rowsLeft, ret, schemas, realm, names, si, ti, t, rows, idxNames, chkNames, idxSeen, chkSeen>>
     \/ /\ Failure("stream")
        /\ rowsLeft' = rowsLeft
        /\ ReturnError(ErrRows)

\* `return t, nil` of inspectTable: InspectTable returns the table,
\* InspectRealm and InspectSchema append it to s.Tables
Table_Return ==
  /\ pc = "table.return"
  /\ UNCHANGED <<op, log, hist, rowsLeft, tvars>>
  /\ \/ /\ op.kind = "InspectTable"
        /\ ret' = [done |-> TRUE, err |-> "", val |-> "Table"]
        /\ pc' = "done"
        /\ UNCHANGED <<schemas, realm, names, si, ti, t, rows, idxNames, chkNames, idxSeen, chkSeen>>
     \/ /\ op.kind # "InspectTable"
        /\ schemas' = [schemas EXCEPT ![si].Tables = Append(@, t)]
        /\ ti' = ti + 1
        /\ t' = NoTable
        /\ rows' = 0
        /\ idxNames' = EmptyIdxNames /\ chkNames' = EmptyChkNames
        /\ idxSeen' = <<>> /\ chkSeen' = <<>>
        /\ pc' = "tables.loop"
        /\ UNCHANGED <<ret, realm, names, si>>

InspectorNext ==
  \/ Call \/ Schemas_Query \/ Schemas_Next \/ Attached_Query \/ Realm_NextSchema
  \/ TableNames \/ Tables_Next \/ Table_Query \/ Columns_Query \/ Columns_Next
  \/ Indexes_Query \/ Indexes_Next \/ FKs_Query \/ Checks_Query \/ Checks_Next
  \/ Table_Return

(***************************************************************************)
(* The steps of the conversion layer.                                      *)
(***************************************************************************)
\* ParseType(typeIn)
DoParseType ==
  /\ tstep = "string"
  /\ parseRes' = ParseType(typeIn)
  /\ cur' = parseRes'.t
  /\ descIn' = parseColumn(typeIn).c
  /\ tstep' = IF parseRes'.outcome = "ok" THEN "type" ELSE "failed"
  /\ UNCHANGED <<origin, typeIn, fmtRes, dvars, openIn, openRes>>
  /\ UNCHANGED ivars

\* addColumn: c.Type.Type = columnType(&columnDesc{...})
DoColumnType ==
  /\ tstep = "desc"
  /\ cur' = columnType(descIn)
  /\ tstep' = "type"
  /\ UNCHANGED <<origin, typeIn, descIn, parseRes, fmtRes, dvars, openIn, openRes>>
  /\ UNCHANGED ivars

\* FormatType(cur)
DoFormatType ==
  /\ tstep = "type"
  /\ fmtRes' = FormatType(cur)
  /\ tstep' = "formatted"
  /\ UNCHANGED <<origin, typeIn, descIn, parseRes, cur, dvars, openIn, openRes>>
  /\ UNCHANGED ivars

\* addColumn: c.Default = defaultExpr(c, defaults.String)
DoDefaultExpr ==
  /\ tstep = "default"
  /\ defaultRes' = defaultExpr(colIn, defaultIn)
  /\ tstep' = "classified"
  /\ UNCHANGED <<origin, typeIn, descIn, parseRes, cur, fmtRes, colIn, defaultIn,
                 openIn, openRes>>
  /\ UNCHANGED ivars

TypesNext == DoParseType \/ DoColumnType \/ DoFormatType \/ DoDefaultExpr

(***************************************************************************)
(* Specifications.                                                         *)
(***************************************************************************)
\* Open(db)
DoOpen ==
  /\ openRes.err = "none"
  /\ openRes' = Open(openIn)
  /\ UNCHANGED <<tstep, origin, typeIn, descIn, parseRes, cur, fmtRes, dvars, openIn>>
  /\ UNCHANGED ivars

\* the inspector, the conversion layer idle
Init == InspectorIdle /\ TypesIdle /\ OpenIdle
Next == InspectorNext
Spec == Init /\ [][Next]_vars

\* the conversion layer, the inspector idle
InitTypes == TypesInit /\ InspectorIdle /\ OpenIdle
NextTypes == TypesNext
SpecTypes == InitTypes /\ [][NextTypes]_vars

\* Open, the inspector and the conversion layer idle
InitOpen == OpenInit /\ InspectorIdle /\ TypesIdle
SpecOpen == InitOpen /\ [][DoOpen]_vars

(***************************************************************************)
(* Properties of the conversion layer (under SpecTypes).                   *)
(***************************************************************************)
RECURSIVE RemoveSpacesFrom(_, _)
RemoveSpacesFrom(s, i) ==
  IF i > Len(s) THEN ""
  ELSE (IF CharAt(s, i) = " " THEN "" ELSE CharAt(s, i)) \o RemoveSpacesFrom(s, i + 1)

\* whitespace normalisation, the most lenient one: no space counts
NormalizeSpace(s) == RemoveSpacesFrom(s, 1)

Supported(ty) == ty.kind \notin {"Unsupported", "UserDefined", "nil"}

\* C1: round trip.  Whenever ParseType decodes a type string without error
\* into a supported variant, FormatType of the result succeeds and gives the
\* string back, up to whitespace.
C1_RoundTrip ==
  (tstep = "formatted" /\ origin = "parse" /\ parseRes.outcome = "ok" /\ Supported(cur))
    => (fmtRes.err = "" /\ NormalizeSpace(fmtRes.f) = NormalizeSpace(typeIn))

\* C2: bucketing.  A Binary formats as raw(1) below 2, as blob above 4000 and
\* as raw(Size) in between; a String as char(1), clob and varchar2(Size).
C2_Bucketing ==
  (tstep = "formatted" /\ cur.kind \in {"Binary", "String"}) =>
    LET small == IF cur.kind = "Binary" THEN "raw(1)" ELSE "char(1)"
        large == IF cur.kind = "Binary" THEN "blob" ELSE "clob"
        sized == (IF cur.kind = "Binary" THEN "raw" ELSE "varchar2")
                   \o "(" \o ToString(cur.Size) \o ")"
    IN /\ fmtRes.err = ""
       /\ cur.Size < 2 => fmtRes.f = small
       /\ cur.Size > 4000 => fmtRes.f = large
       /\ (2 <= cur.Size /\ cur.Size <= 4000) => fmtRes.f = sized

\* a String of size exactly 4000 has been formatted, as a sized varchar2
C2_Witness ==
  /\ tstep = "formatted" /\ cur.kind = "String" /\ cur.Size = 4000
  /\ fmtRes.f = "varchar2(4000)"

\* C3: decimals.  A negative scale is a scale error; a positive scale with
\* precision 0 a precision error; 0/0 gives number; scale 0 gives
\* number(precision); otherwise number(precision,scale).  An error comes
\* with no type string.
C3_Decimal ==
  (tstep = "formatted" /\ cur.kind = "Decimal") =>
    LET p == cur.Precision
        s == cur.Scale
    IN /\ s < 0 => fmtRes = [f |-> "", err |-> ErrScale]
       /\ (s > 0 /\ p = 0) => fmtRes = [f |-> "", err |-> ErrPrecision]
       /\ (p = 0 /\ s = 0) => fmtRes = [f |-> "number", err |-> ""]
       /\ (s = 0 /\ p # 0) =>
            fmtRes = [f |-> "number(" \o ToString(p) \o ")", err |-> ""]
       /\ (s > 0 /\ p # 0) =>
            fmtRes = [f |-> "number(" \o ToString(p) \o "," \o ToString(s) \o ")", err |-> ""]

\* a Decimal of precision 0 and scale 2 has been refused for its precision
C3_Witness ==
  /\ tstep = "formatted" /\ cur.kind = "Decimal"
  /\ cur.Precision = 0 /\ cur.Scale = 2
  /\ fmtRes.err = ErrPrecision

\* the spellings of the dialect: a type name, or raw, varchar2, char or
\* number with one or two numbers in parentheses
NativeNames ==
  {TypeVarchar, TypeNVarchar, TypeChar, TypeNChar, TypeRowID, TypeRaw, TypeFloat,
   TypeDouble, TypeInt, TypeNumber, TypeDate, TypeTimestamp, TypeTimestampTZ,
   TypeTimestampLTZ, TypeIntervalDS, TypeIntervalYM, TypeCLOB, TypeBLOB, TypeBFile,
   TypeLongVarchar, TypeLongRaw, TypeJSON}
IsNativeSpelling(f) ==
  \/ f \in NativeNames
  \/ LET p == FieldsFunc(f) IN
       /\ Len(p) \in {2, 3}
       /\ p[1] \in {TypeRaw, TypeVarchar, TypeChar, TypeNumber}
       /\ \A k \in 2..Len(p) : ParseInt(p[k]).ok

\* C4: FormatType fails, with no type string, for an UnsupportedType, a
\* UserDefinedType and any variant it does not know; and whatever it returns
\* without error is a native spelling.
C4_UnsupportedNeverFormats ==
  tstep = "formatted" =>
    /\ cur.kind \in {"Unsupported", "UserDefined", "Bool", "nil"}
         => (fmtRes.err # "" /\ fmtRes.f = "")
    /\ fmtRes.err = "" => IsNativeSpelling(fmtRes.f)

HasSuffix(s, suf) == Len(s) >= Len(suf) /\ SubSeq(s, Len(s) - Len(suf) + 1, Len(s)) = suf

\* the inner text is valid for the variant of the column
InnerValid(kind, inner) ==
  CASE kind = "Bool" -> IsLiteralBool(inner)
    [] kind \in {"Decimal", "Integer", "Float"} -> IsLiteralNumber(inner)
    [] kind \in {"Binary", "JSON", "String", "Time"} -> TRUE
    [] OTHER -> FALSE

\* C11: default classification.  A boolean literal, a numeric literal or a
\* single-quoted string is a Literal of the text; a text of the form
\* '<inner>'::<raw name of the column>, with inner valid for the column's
\* variant, is a Literal of the quoted text (quotes kept); every other text
\* is a RawExpr of the text as it is.
C11_DefaultClassification ==
  tstep = "classified" =>
    LET x   == defaultIn
        suf == "::" \o colIn.Raw
        q   == SubSeq(x, 1, Len(x) - Len(suf))
    IN IF IsLiteralBool(x) \/ IsLiteralNumber(x) \/ IsQuoted(x)
       THEN defaultRes = Literal(x)
       ELSE IF /\ HasSuffix(x, suf) /\ IsQuoted(q)
               /\ InnerValid(colIn.Type.kind, SubSeq(q, 2, Len(q) - 1))
            THEN defaultRes = Literal(q)
            ELSE defaultRes = RawExpr(x)

CharFamily == {TypeVarchar, TypeNVarchar, TypeChar, TypeNChar}

\* C12: columnType picks the variant by the lowered type name and copies the
\* facets of the descriptor: Size for the string family and for raw,
\* Precision for float and double, Precision and Scale for number; interval
\* names and names it does not know give UnsupportedType.
C12_FacetsCopied ==
  (origin = "catalog" /\ tstep \in {"type", "formatted"}) =>
    LET l == ToLower(descIn.typ) IN
      /\ cur.T = descIn.typ
      /\ l \in CharFamily => (cur.kind = "String" /\ cur.Size = descIn.size)
      /\ l = TypeRaw => (cur.kind = "Binary" /\ cur.Size = descIn.size)
      /\ l \in {TypeFloat, TypeDouble} =>
           (cur.kind = "Float" /\ cur.Precision = descIn.precision)
      /\ l = TypeNumber =>
           (cur.kind = "Decimal" /\ cur.Precision = descIn.precision
              /\ cur.Scale = descIn.scale)
      /\ l = TypeInt => cur.kind = "Integer"
      /\ l = TypeJSON => cur.kind = "JSON"
      /\ l \in {TypeDate, TypeTimestamp, TypeTimestampTZ, TypeTimestampLTZ} =>
           cur.kind = "Time"
      /\ l \notin (CharFamily \cup {TypeRaw, TypeFloat, TypeDouble, TypeNumber, TypeInt,
                                    TypeJSON, TypeDate, TypeTimestamp, TypeTimestampTZ,
                                    TypeTimestampLTZ}) => cur.kind = "Unsupported"

\* C13: ParseType takes the facets written in the expression: k(n) gives a
\* String named k of Size n for each keyword k of the char family;
\* number(p,s) gives a Decimal of Precision p and Scale s; double, int and
\* float get the precisions 53, 32 and 24.
C13_ParsedFacets ==
  (origin = "parse" /\ tstep # "string") =>
    /\ \A k \in CharFamily, n \in Sizes :
         typeIn = Sized(k, n) =>
           (parseRes.outcome = "ok" /\ parseRes.t = StringType(k, n))
    /\ \A p, s \in Facets \ {0 - 1} :
         typeIn = TypeNumber \o "(" \o ToString(p) \o "," \o ToString(s) \o ")" =>
           (parseRes.outcome = "ok" /\ parseRes.t = DecimalType(TypeNumber, p, s))
    /\ typeIn = TypeDouble =>
         (descIn.precision = 53 /\ parseRes.t = FloatType(TypeDouble, 53))
    /\ typeIn = TypeInt => (descIn.precision = 32 /\ parseRes.t = IntegerType(TypeInt))
    /\ typeIn = TypeFloat =>
         (descIn.precision = 24 /\ parseRes.t = FloatType(TypeFloat, 24))

\* C19: ParseType is total.  Every call returns a type or an error, none ends
\* in a runtime fault; no returned type is an UnsupportedType, and a
\* UserDefinedType carries the whole input text.
C19_ParseTotal ==
  (origin = "parse" /\ tstep # "string") =>
    /\ parseRes.outcome \in {"ok", "error"}
    /\ parseRes.outcome = "ok" =>
         /\ parseRes.t.kind \notin {"Unsupported", "nil"}
         /\ parseRes.t.kind = "UserDefined" => parseRes.t.T = typeIn

(***************************************************************************)
(* Properties of the inspector (under Spec).                               *)
(***************************************************************************)
RowsOf(seen, n) == SelectSeq(seen, LAMBDA r : r.name = n)

\* the part addIndexes is to make of the k-th row of an index
PartOfRow(tb, r, k) ==
  IF ValidString(r.expr)
  THEN [SeqNo |-> k, C |-> 0, X |-> r.expr]
  ELSE [SeqNo |-> k, C |-> TableColumn(tb, r.column), X |-> ""]

\* the tables the call has finished, and the one it is building
FinishedTables ==
  UNION {{schemas[i].Tables[k] : k \in 1..Len(schemas[i].Tables)} : i \in 1..Len(schemas)}
BuiltTables == FinishedTables \cup {t}

C6_MissingIndexColumn ==
  hist.missingIdxCol =>
    /\ ret = [done |-> TRUE, err |-> ErrIndexColumn, val |-> "nil"]
    /\ pc = "done"
    /\ t = NoTable /\ schemas = <<>> /\ realm = 0

\* InspectRealm has been ended by such a row
C6_Witness ==
  /\ hist.missingIdxCol /\ op.kind = "InspectRealm"
  /\ ret.done /\ ret.err = ErrIndexColumn

\* C7: check assembly.  The checks of the table are one per distinct
\* constraint name among the rows taken, each listing the columns of the rows
\* of its name in order, all of them columns of the table; a row whose
\* column the table does not have ends the call with an error.
C7_CheckAssembly ==
  /\ hist.missingChkCol => ret = [done |-> TRUE, err |-> ErrCheckColumn, val |-> "nil"]
  /\ \A n \in CheckNames :
       Cardinality({i \in 1..Len(t.Attrs) :
                      t.Attrs[i].attr = "Check" /\ t.Attrs[i].Name = n})
         = IF Len(RowsOf(chkSeen, n)) = 0 THEN 0 ELSE 1
  /\ \A i \in 1..Len(t.Attrs) :
       t.Attrs[i].attr = "Check" =>
         LET rs == RowsOf(chkSeen, t.Attrs[i].Name) IN
           t.Attrs[i].Columns = [k \in 1..Len(rs) |-> rs[k].column]
  /\ \A tb \in BuiltTables : \A i \in 1..Len(tb.Attrs) :
       tb.Attrs[i].attr = "Check" =>
         /\ Len(tb.Attrs[i].Columns) >= 1
         /\ \A k \in 1..Len(tb.Attrs[i].Columns) :
              TableColumn(tb, tb.Attrs[i].Columns[k]) # 0
         /\ \A j \in 1..Len(tb.Attrs) :
              (tb.Attrs[j].attr = "Check" /\ tb.Attrs[j].Name = tb.Attrs[i].Name) => i = j

\* the checks of a table are assembled, check c1 from two rows not adjacent
C7_Witness ==
  /\ pc = "table.return" /\ Len(chkSeen) = 3
  /\ chkSeen[1] = CheckRow("c1", "a") /\ chkSeen[2].name = "c2"
  /\ chkSeen[3] = CheckRow("c1", "b")
  /\ t.Attrs[chkNames["c1"]].Columns = <<"a", "b">>

\* C8: a call whose table identity query gave no row returns the table's
\* NotExistError, and only such a call does; a failed identity query or an
\* unscannable row gives another error; in all three cases nothing is
\* returned and the identity query is the last query issued.
C8_TableNotExist ==
  /\ hist.identity \in {"fail", "norows", "scanerr"} =>
       /\ ret.done /\ ret.err # "" /\ ret.val = "nil"
       /\ t = NoTable
       /\ log[Len(log)].q = "table"
  /\ ret.done => (ret.err = ErrTableNotExist <=> hist.identity = "norows")
  /\ hist.identity \in {"fail", "scanerr"} => ~IsNotExist(ret.err)

\* InspectTable has returned NotExistError after an identity query without rows
C8_Witness ==
  /\ op.kind = "InspectTable" /\ ret.done
  /\ hist.identity = "norows" /\ ret.err = ErrTableNotExist

\* the schema InspectSchema resolves: the name given, or the attached one
ResolvedSchema == IF op.name # "" THEN op.name ELSE hist.attached
InCatalog(n) == \E k \in 1..Len(CatalogSchemas) : CatalogSchemas[k] = n

\* C9: InspectSchema, with no failure of the executor, returns a
\* NotExistError whenever the resolved schema is not in the schema list, on
\* the named path and on the empty-name path.
C9_SchemaNotExist ==
  (op.kind = "InspectSchema" /\ ret.done /\ hist.faults = 0 /\ ~InCatalog(ResolvedSchema))
    => ret.err = ErrSchemaNotExist

\* C10: no partial results.  A call that returns without error had no query
\* fail, no row fail to scan and no row stream fail under it.
C10_NoPartialResults ==
  (ret.done /\ ret.err = "") =>
    (~hist.queryFailed /\ ~hist.scanFailed /\ ~hist.streamFailed)

\* the position of x in seq, 0 if it is not there
Pos(seq, x) ==
  IF \E k \in 1..Len(seq) : seq[k] = x THEN CHOOSE k \in 1..Len(seq) : seq[k] = x ELSE 0
QueryIs(b, q, arg) == b.q = q /\ b.arg = arg
\* the schema whose tables are inspected when the i-th query is issued
SchemaAt(i) ==
  LET at == {j \in 1..i : log[j].q = "tables"} IN
  IF at = {} THEN "" ELSE log[CHOOSE j \in at : \A k \in at : k <= j].arg
\* the query after the last query of a schema, in InspectRealm
NextSchemaFollows(i) ==
  LET k == Pos(SchemasResult, SchemaAt(i)) IN
    /\ op.kind = "InspectRealm"
    /\ k > 0 /\ k < Len(SchemasResult)
    /\ QueryIs(log[i + 1], "tables", SchemasResult[k + 1])
\* the (i+1)-th query is the one that is to follow the i-th
Follows(i) ==
  LET a == log[i]
      b == log[i + 1]
  IN CASE a.q = "schemas" ->
            Len(SchemasResult) > 0 /\ QueryIs(b, "tables", SchemasResult[1])
       [] a.q = "attached" -> QueryIs(b, "tables", hist.attached)
       [] a.q = "tables" ->
            IF Len(CatalogTables(a.arg)) > 0
            THEN QueryIs(b, "table", CatalogTables(a.arg)[1])
            ELSE NextSchemaFollows(i)
       [] a.q = "table"   -> QueryIs(b, "columns", a.arg)
       [] a.q = "columns" -> QueryIs(b, "indexes", a.arg)
       [] a.q = "indexes" -> QueryIs(b, "fks", a.arg)
       [] a.q = "fks"     -> QueryIs(b, "checks", a.arg)
       [] a.q = "checks"  ->
            LET ts == CatalogTables(SchemaAt(i))
                k  == Pos(ts, a.arg)
            IN /\ op.kind # "InspectTable" /\ k > 0
               /\ IF k < Len(ts) THEN QueryIs(b, "table", ts[k + 1])
                  ELSE NextSchemaFollows(i)
       [] OTHER -> FALSE

\* C14: query ordering.  The queries of a call come one after the other in
\* the order schema list, then per schema its table names, then per table
\* identity, columns, indexes, foreign keys, checks; and once a query has
\* failed the call is over and no further query is issued.
C14_QueryOrder ==
  /\ Len(log) > 0 =>
       CASE op.kind = "InspectRealm" -> QueryIs(log[1], "schemas", op.filter)
         [] op.kind = "InspectSchema" ->
              IF op.name = "" THEN log[1].q = "attached"
              ELSE QueryIs(log[1], "schemas", <<op.name>>)
         [] op.kind = "InspectTable" -> QueryIs(log[1], "table", op.name)
         [] OTHER -> FALSE
  /\ \A i \in 1..(Len(log) - 1) : Follows(i)
  /\ hist.queryFailed =>
       (Len(log) = hist.failedAt /\ pc = "done" /\ ret.done /\ ret.err # "")

\* InspectRealm has returned the Realm after all eighteen queries of the catalog
C14_Witness ==
  /\ op.kind = "InspectRealm" /\ op.filter = <<>> /\ ret.done /\ ret.err = ""
  /\ Len(log) = 18 /\ log[18] = Query("checks", "T2") /\ log[13].q = "tables"

\* C15: graph linking.  After a successful InspectRealm every table of a
\* schema refers to that schema, every schema has had its Realm set exactly
\* once, to the returned Realm, and its tables are in the order of the
\* table-name query; after a successful InspectSchema the Realm of the
\* returned schema holds it and every table refers to the returned schema.
C15_GraphLinking ==
  (ret.done /\ ret.err = "" /\ op.kind \in {"InspectRealm", "InspectSchema"}) =>
    /\ realm = 1
    /\ op.kind = "InspectSchema" => Len(schemas) = 1
    /\ \A i \in 1..Len(schemas) :
         /\ schemas[i].Realm = realm /\ schemas[i].realmSets = 1
         /\ [k \in 1..Len(schemas[i].Tables) |-> schemas[i].Tables[k].Name]
              = CatalogTables(schemas[i].Name)
         /\ \A k \in 1..Len(schemas[i].Tables) :
              schemas[i].Tables[k].Schema = TopSchema(i)

\* InspectRealm has returned two schemas, the first with two tables
C15_Witness ==
  /\ op.kind = "InspectRealm" /\ ret.done /\ ret.err = ""
  /\ Len(schemas) = 2 /\ Len(schemas[1].Tables) = 2
  /\ schemas[2].Tables[1].Schema = TopSchema(2)

\* how often x occurs in seq
Count(seq, x) == Cardinality({k \in 1..Len(seq) : seq[k] = x})

\* C16: the index lists of the columns are filled by the linker only.  Once
\* the index rows of a table are decoded and until the linker runs, every
\* column's list is empty; after the linker an index is in a column's list
\* once per part of it that names the column.
C16_BackRefsByLinker ==
  /\ pc \in {"fks.query", "checks.query", "checks.next", "table.return"} =>
       \A ci \in 1..Len(t.Columns) : t.Columns[ci].Indexes = <<>>
  /\ (ret.done /\ ret.err = "" /\ op.kind \in {"InspectRealm", "InspectSchema"}) =>
       \A tb \in FinishedTables : \A ci \in 1..Len(tb.Columns) : \A id \in 1..Len(tb.heap) :
         Count(tb.Columns[ci].Indexes, id)
           = Cardinality({k \in 1..Len(tb.heap[id].Parts) : tb.heap[id].Parts[k].C = ci})

\* C18: primary-key separation.  Every index name among the rows taken has
\* one index, which is the PrimaryKey of the table when its first row has
\* the primary flag and a member of Indexes otherwise, never both and never
\* neither; the same holds of every index of a finished table.
C18_NoIndexLost ==
  /\ \A n \in IndexNames :
       Len(RowsOf(idxSeen, n)) > 0 =>
         LET id == idxNames[n] IN
           /\ id # 0
           /\ (t.PrimaryKey = id) # (Count(t.Indexes, id) > 0)
           /\ (t.PrimaryKey = id) <=> RowsOf(idxSeen, n)[1].primary
           /\ Count(t.Indexes, id) <= 1
  /\ \A tb \in FinishedTables : \A id \in 1..Len(tb.heap) :
       /\ (tb.PrimaryKey = id) # (Count(tb.Indexes, id) > 0)
       /\ Count(tb.Indexes, id) <= 1

(***************************************************************************)
(* Properties of Open (under SpecOpen).                                    *)
(***************************************************************************)
\* C17: Open returns a Driver only if the parameter query succeeded, gave
\* exactly 3 values and the version value has exactly 6 characters; if the
\* query fails, the count is not 3 or the version has another length, Open
\* returns an error and no Driver.
C17_OpenValidates ==
  openRes.err # "none" =>
    LET good == /\ openIn.query = "rows" /\ Len(openIn.params) = 3
                /\ Len(openIn.params[3]) = 6
    IN /\ openRes.driver => (good /\ openRes.err = "")
       /\ ~good => (~openRes.driver /\ openRes.err # "")
       /\ openRes.driver # (openRes.err # "")

\* Open has returned a Driver for three values, the version of 6 characters
C17_Witness ==
  /\ openRes.driver /\ openRes.err = ""
  /\ Len(openIn.params) = 3 /\ openIn.params[3] = "120100"
  /\ openRes.version = "12.01.00"

====
